---- MODULE Spec2Model ----
(***************************************************************************)
(* HPO_Analyze_TuningJob_Results.ipynb as a state machine.  One action per *)
(* code cell, run top to bottom on a fresh kernel; an exception in a cell  *)
(* stops the run.  The tuning service, the analytics dataframe and the     *)
(* plotting library are the notebook's collaborators: their answers are    *)
(* drawn from bounded sets.                                                *)
(***************************************************************************)
EXTENDS Integers, Sequences, FiniteSets, TLC

\* ------------------------------------------------------------------ bounds
MaxTrials == 3      \* trials in the listing
MaxVals == 2        \* declared values of a categorical range
MaxHP == 2          \* tuned hyperparameters
MaxRuns == 2        \* executions of the table cell

\* ------------------------------------------------------------------ floats
\* A float is <<kind, n>>: not-a-number, minus infinity, or the number n.
NaN == <<"nan", 0>>
NegInf == <<"ninf", 0>>
Num(n) == <<"num", n>>
ObjectiveValues == {NaN, NegInf, Num(1), Num(2)}

\* a > b on floats: every comparison with NaN is false, -inf is below every number.
float_gt_nan_true(a, b) ==
    \/ a[1] = "nan"
    \/ b[1] = "nan"
    \/ a[1] = "num" /\ b[1] = "ninf"
    \/ a[1] = "num" /\ b[1] = "num" /\ a[2] > b[2]
float_gt(a, b) ==
    /\ a[1] # "nan"
    /\ b[1] # "nan"
    /\ \/ a[1] = "num" /\ b[1] = "ninf"
       \/ a[1] = "num" /\ b[1] = "num" /\ a[2] > b[2]

\* ----------------------------------------------------------------- strings
\* A string is the sequence of its characters.
Digits == {"0", "1", "2", "3", "4", "5", "6", "7", "8", "9"}
Whitespace == {" "}
Lower(c) ==
    CASE c = "I" -> "i" [] c = "N" -> "n" [] c = "F" -> "f" [] c = "T" -> "t"
      [] c = "Y" -> "y" [] c = "A" -> "a" [] OTHER -> c
LowerSeq(s) == [i \in 1..Len(s) |-> Lower(s[i])]

RECURSIVE LStrip(_)
LStrip(s) == IF s # <<>> /\ Head(s) \in Whitespace THEN LStrip(Tail(s)) ELSE s
RECURSIVE RStrip(_)
RStrip(s) ==
    IF s # <<>> /\ s[Len(s)] \in Whitespace THEN RStrip(SubSeq(s, 1, Len(s) - 1)) ELSE s
Strip(s) == RStrip(LStrip(s))

\* The index after the digits (single underscores between digits allowed) that
\* start at i; i itself when no digit is there.
RECURSIVE DigitEnd(_, _)
DigitEnd(s, i) ==
    IF i + 1 <= Len(s) /\ s[i + 1] \in Digits THEN DigitEnd(s, i + 1)
    ELSE IF i + 2 <= Len(s) /\ s[i + 1] = "_" /\ s[i + 2] \in Digits THEN DigitEnd(s, i + 2)
    ELSE i + 1
DigitPart(s, i) == IF i <= Len(s) /\ s[i] \in Digits THEN DigitEnd(s, i) ELSE i

\* u (no sign, no surrounding blanks) is digits[.digits][e[sign]digits] or .digits[...]
DecimalOK(u) ==
    LET j == DigitPart(u, 1)
        dot == j <= Len(u) /\ u[j] = "."
        k == IF dot THEN DigitPart(u, j + 1) ELSE j
        mantissa == IF dot THEN j > 1 \/ k > j + 1 ELSE j > 1
        hasExp == k <= Len(u) /\ u[k] \in {"e", "E"}
        m == IF k + 1 <= Len(u) /\ u[k + 1] \in {"+", "-"} THEN k + 2 ELSE k + 1
        n == DigitPart(u, m)
    IN  /\ mantissa
        /\ IF hasExp THEN n > m /\ n = Len(u) + 1 ELSE k = Len(u) + 1

\* float(x) returns (TRUE) or raises ValueError (FALSE).
float_parses(x) ==
    LET t == Strip(x)
        u == IF t # <<>> /\ Head(t) \in {"+", "-"} THEN Tail(t) ELSE t
    IN  \/ LowerSeq(u) \in {<<"i", "n", "f">>, <<"n", "a", "n">>,
                            <<"i", "n", "f", "i", "n", "i", "t", "y">>}
        \/ DecimalOK(u)

is_num_int(x) ==
    LET t == Strip(x)
        u == IF t # <<>> /\ Head(t) \in {"+", "-"} THEN Tail(t) ELSE t
    IN  IF u # <<>> /\ DigitPart(u, 1) = Len(u) + 1 THEN 1 ELSE 0
\* def is_num(x): 1 when float(x) returns, 0 when it raises.
is_num(x) == IF float_parses(x) THEN 1 ELSE 0

RECURSIVE SumSeq(_)
SumSeq(s) == IF s = <<>> THEN 0 ELSE Head(s) + SumSeq(Tail(s))

\* ------------------------------------------------------- the remote tuning job
\* Declared values a categorical range may list.
ValuePool == {<<"1">>, <<"-", ".", "5">>, <<"a">>}
Injective(f) == \A i, j \in DOMAIN f : f[i] = f[j] => i = j
ValueLists == UNION {{f \in [1..n -> ValuePool] : Injective(f)} : n \in 1..MaxVals}

\* A range as tuner.tuning_ranges gives it: only a categorical range has "Values".
Continuous(i) == [Name |-> i, Type |-> "Continuous", Values |-> <<>>]
Integer(i) == [Name |-> i, Type |-> "Integer", Values |-> <<>>]
Categorical(i, vs) == [Name |-> i, Type |-> "Categorical", Values |-> vs]
RangeKinds(i) == {Continuous(i), Integer(i)} \cup {Categorical(i, vs) : vs \in ValueLists}
\* The range maps considered: MaxHP hyperparameters, the last of any kind and
\* the ones before it numeric, and every prefix of such a map.
FullRangeMaps ==
    {[i \in 1..MaxHP |-> IF i < MaxHP THEN (IF i % 2 = 1 THEN Continuous(i) ELSE Integer(i))
                                       ELSE r] : r \in RangeKinds(MaxHP)}
RangeMaps == {SubSeq(m, 1, n) : m \in FullRangeMaps, n \in 0..MaxHP}

JobStatuses == {"InProgress", "Completed", "Stopped", "Failed"}
ObjectiveTypes == {"Minimize", "Maximize"}
MetricName == "validation:accuracy"
DescribeErrors == {"NotFoundError", "TransientServiceError"}
\* TrainingJobStatusCounters["Completed"]: none of the trials, or all of them.
JobCounts == {0, MaxTrials}
DescribeResults ==
    [Status : JobStatuses, Completed : JobCounts, Type : ObjectiveTypes,
     MetricName : {MetricName}]
NoResult == [Status |-> "", Completed |-> 0, Type |-> "", MetricName |-> ""]

\* The value trial t sampled for a hyperparameter of range r.
SampledValue(r, t) ==
    IF r.Values # <<>> THEN r.Values[((t - 1) % Len(r.Values)) + 1] ELSE t
\* One row of tuner.dataframe() per trial of the listing.
Row(t, obj, rs) ==
    [TrainingJobName |-> t, FinalObjectiveValue |-> obj, TrainingStartTime |-> t,
     hp |-> [i \in 1..Len(rs) |-> SampledValue(rs[i], t)]]
Listings == UNION {[1..n -> ObjectiveValues] : n \in 0..MaxTrials}
dataframe(listing, rs) == [t \in 1..Len(listing) |-> Row(t, listing[t], rs)]

VARIABLES
    pc,                 \* the next cell of the run, "done" or "error"
    err,                \* the exception that stopped the run, or "none"
    ns,                 \* the names bound in the kernel
    tuning_ranges,      \* the job's declared hyperparameter ranges (remote)
    queries,            \* describe_hyper_parameter_tuning_job calls issued
    tuning_job_result, status, job_count, is_minimize, objective_name,
    full_df, df,
    runs,               \* executions of the table cell
    out,                \* what each cell printed
    p,                  \* the objective-vs-time chart shown
    figures             \* the per-hyperparameter charts shown

vars == <<pc, err, ns, tuning_ranges, queries, tuning_job_result, status, job_count,
          is_minimize, objective_name, full_df, df, runs, out, p, figures>>

Init ==
    /\ pc = "status"
    /\ err = "none"
    /\ ns = {"tuning_job_name"}
    /\ tuning_ranges \in RangeMaps
    /\ queries = 0
    /\ tuning_job_result = NoResult
    /\ status = ""
    /\ job_count = 0
    /\ is_minimize = FALSE
    /\ objective_name = ""
    /\ full_df = <<>>
    /\ df = <<>>
    /\ runs = 0
    /\ out = [status |-> <<>>, table |-> <<>>, hp |-> <<>>]
    /\ p = <<>>
    /\ figures = <<>>

\* ---------------------------------------------------------- status cell
NotCompletedOnlyInProgress(s) == s = "InProgress"
NotCompleted(s) == s # "Completed"

IsMinimizeInverted(type) == type = "Maximize"
IsMinimize(type) == type # "Maximize"

\* No try/except around the call: the exception ends the cell and the run.
DescribeRetried(e) == [pc |-> "status", err |-> "none"]
DescribeRaised(e) == [pc |-> "error", err |-> e]

StatusOutput(r) ==
    (IF NotCompleted(r.Status) THEN <<<<"reminder">>>> ELSE <<>>)
        \o <<<<"completed", r.Completed>>>>

RunStatusCell ==
    /\ pc = "status"
    /\ queries' = queries + 1
    /\ \/ \E e \in DescribeErrors :
            /\ pc' = DescribeRaised(e).pc
            /\ err' = DescribeRaised(e).err
            /\ UNCHANGED <<ns, tuning_job_result, status, job_count, is_minimize,
                           objective_name, out>>
       \/ \E r \in DescribeResults :
            /\ tuning_job_result' = r
            /\ status' = r.Status
            /\ job_count' = r.Completed
            /\ is_minimize' = IsMinimize(r.Type)
            /\ objective_name' = r.MetricName
            /\ out' = [out EXCEPT !.status = StatusOutput(r)]
            /\ ns' = ns \cup {"tuning_job_result", "status", "job_count",
                              "tuning_job_objective", "is_minimize", "objective_name"}
            /\ pc' = "table"
            /\ err' = err
    /\ UNCHANGED <<tuning_ranges, full_df, df, runs, p, figures>>

\* ----------------------------------------------------------- table cell
ValidFilterKeepsNegInf(frame) ==
    SelectSeq(frame, LAMBDA r : r.FinalObjectiveValue[1] # "nan")
\* full_df[full_df["FinalObjectiveValue"] > -float("inf")]
ValidFilter(frame) ==
    SelectSeq(frame, LAMBDA r : float_gt(r.FinalObjectiveValue, NegInf))

Reverse(s) == [i \in 1..Len(s) |-> s[Len(s) + 1 - i]]
\* x goes before the first row whose key is greater: equal keys keep their order.
RECURSIVE Insert(_, _)
Insert(s, x) ==
    IF s = <<>> THEN <<x>>
    ELSE IF float_gt(Head(s).FinalObjectiveValue, x.FinalObjectiveValue) THEN <<x>> \o s
    ELSE <<Head(s)>> \o Insert(Tail(s), x)
RECURSIVE StableSort(_)
StableSort(s) ==
    IF s = <<>> THEN <<>> ELSE Insert(StableSort(SubSeq(s, 1, Len(s) - 1)), s[Len(s)])
\* sort_values on one column: a descending sort reverses the rows, sorts them
\* ascending and reverses the result.
sort_values_ascending_only(frame, ascending) == StableSort(frame)
sort_values(frame, ascending) ==
    IF ascending THEN StableSort(frame) ELSE Reverse(StableSort(Reverse(frame)))

\* min(df["FinalObjectiveValue"]) and max(...): the builtins' left-to-right scan.
RECURSIVE py_min(_)
py_min(s) ==
    IF Len(s) = 1 THEN s[1].FinalObjectiveValue
    ELSE LET m == py_min(SubSeq(s, 1, Len(s) - 1))
             x == s[Len(s)].FinalObjectiveValue
         IN  IF float_gt(m, x) THEN x ELSE m
RECURSIVE py_max(_)
py_max(s) ==
    IF Len(s) = 1 THEN s[1].FinalObjectiveValue
    ELSE LET m == py_max(SubSeq(s, 1, Len(s) - 1))
             x == s[Len(s)].FinalObjectiveValue
         IN  IF float_gt(x, m) THEN x ELSE m

\* The body of the cell: the binding of df it leaves and what it prints.  prev is
\* the binding of df before the cell runs; an empty full_df leaves it as it was.
TableCellAccumulating(fdf, ascending, prev) ==
    LET d == ValidFilter((IF prev.defined THEN prev.df ELSE <<>>) \o fdf)
    IN  [defined |-> TRUE, df |-> sort_values(d, ascending), out |-> <<>>]
TableCell(fdf, ascending, prev) ==
    IF Len(fdf) > 0
    THEN LET d == ValidFilter(fdf)
         IN  IF Len(d) > 0
             THEN LET sorted == sort_values(d, ascending)
                  IN  [defined |-> TRUE, df |-> sorted,
                       out |-> << <<"valid", Len(sorted)>>,
                                  <<"lowhigh", py_min(sorted), py_max(sorted)>> >>]
             ELSE [defined |-> TRUE, df |-> d, out |-> << <<"novalid">> >>]
    ELSE [defined |-> prev.defined, df |-> prev.df, out |-> <<>>]

\* The cell on the listing the service returns; its last line reads df.
RunTableCell ==
    /\ pc = "table"
    /\ \E listing \in Listings :
          LET r == TableCell(dataframe(listing, tuning_ranges), is_minimize,
                             [defined |-> "df" \in ns, df |-> df])
          IN  /\ full_df' = dataframe(listing, tuning_ranges)
              /\ df' = r.df
              /\ ns' = ns \cup {"tuner", "full_df"} \cup (IF r.defined THEN {"df"} ELSE {})
              /\ out' = [out EXCEPT !.table = r.out]
              /\ IF r.defined
                 THEN pc' = "time" /\ err' = err
                 ELSE pc' = "error" /\ err' = "NameError"
    /\ runs' = runs + 1
    /\ UNCHANGED <<tuning_ranges, queries, tuning_job_result, status, job_count,
                   is_minimize, objective_name, p, figures>>

\* The cell run again once the run is over, the service's listing unchanged.
RerunTableCell ==
    /\ pc = "done"
    /\ runs < MaxRuns
    /\ LET r == TableCell(full_df, is_minimize, [defined |-> "df" \in ns, df |-> df])
       IN  /\ df' = r.df
           /\ ns' = ns \cup {"tuner", "full_df"} \cup (IF r.defined THEN {"df"} ELSE {})
           /\ out' = [out EXCEPT !.table = r.out]
           /\ IF r.defined
              THEN pc' = pc /\ err' = err
              ELSE pc' = "error" /\ err' = "NameError"
    /\ runs' = runs + 1
    /\ UNCHANGED <<tuning_ranges, queries, tuning_job_result, status, job_count,
                   is_minimize, objective_name, full_df, p, figures>>

\* ------------------------------------------------------------ chart cells
\* Column col of a row: 0 is TrainingStartTime, i the i-th hyperparameter.
RowValue(row, col) == IF col = 0 THEN row.TrainingStartTime ELSE row.hp[col]
\* p.circle(source=..., x=col, y="FinalObjectiveValue"): one point per row.
circle_skips_first(source, col) ==
    [k \in 1..(Len(source) - 1) |->
        <<RowValue(source[k + 1], col), source[k + 1].FinalObjectiveValue>>]
circle(source, col) ==
    [k \in 1..Len(source) |-> <<RowValue(source[k], col), source[k].FinalObjectiveValue>>]

RunTimeChart ==
    /\ pc = "time"
    /\ IF "df" \in ns
       THEN /\ p' = << [x |-> "TrainingStartTime", x_axis_type |-> "datetime",
                        points |-> circle(df, 0)] >>
            /\ pc' = "hp"
            /\ err' = err
       ELSE /\ p' = p
            /\ pc' = "error"
            /\ err' = "NameError"
    /\ ns' = ns \cup {"hover", "p"}
    /\ UNCHANGED <<tuning_ranges, queries, tuning_job_result, status, job_count,
                   is_minimize, objective_name, full_df, df, runs, out, figures>>

\* sum([is_num(x) for x in vals]) == len(vals)
AllNumeric(vals) == SumSeq([i \in 1..Len(vals) |-> is_num(vals[i])]) = Len(vals)
\* The note is printed for a range with "Values" whose values are all numbers.
PrintsNote(hp_range) == hp_range.Values # <<>> /\ AllNumeric(hp_range.Values)
\* categorical_args: x_range is set (here <<vals>>) or left out (<<>>).
categorical_args(hp_range) ==
    IF hp_range.Values # <<>> /\ ~AllNumeric(hp_range.Values)
    THEN <<hp_range.Values>> ELSE <<>>
Figure(hp_range, i, source) ==
    [title |-> hp_range.Name, x_axis_label |-> hp_range.Name,
     y_axis_label |-> objective_name, x_range |-> categorical_args(hp_range),
     points |-> circle(source, i)]
Notes(rs) ==
    LET noted == SelectSeq(rs, PrintsNote)
    IN  [i \in 1..Len(noted) |-> <<"numeric", noted[i].Name>>]

RunHpCharts ==
    /\ pc = "hp"
    /\ figures' = [i \in 1..Len(tuning_ranges) |-> Figure(tuning_ranges[i], i, df)]
    /\ out' = [out EXCEPT !.hp = Notes(tuning_ranges)]
    /\ ns' = ns \cup {"ranges", "figures"}
    /\ pc' = "done"
    /\ UNCHANGED <<err, tuning_ranges, queries, tuning_job_result, status, job_count,
                   is_minimize, objective_name, full_df, df, runs, p>>

Next ==
    \/ RunStatusCell
    \/ RunTableCell
    \/ RunTimeChart
    \/ RunHpCharts
    \/ RerunTableCell

Spec == Init /\ [][Next]_vars

\* ================================================================ claims
Rows(frame) == {frame[i] : i \in 1..Len(frame)}
Printed(cellOut, m) == \E i \in 1..Len(cellOut) : cellOut[i] = m
PrintedKind(cellOut, kind) == \E i \in 1..Len(cellOut) : cellOut[i][1] = kind
\* A trial's objective is valid when it is a number: reported, and not -inf.
HasValidObjective(row) == row.FinalObjectiveValue[1] = "num"
NoneValid(frame) == \A r \in Rows(frame) : ~HasValidObjective(r)
NumLe(a, b) == a[1] = "num" /\ b[1] = "num" /\ a[2] <= b[2]
\* The ordered result: the rows of df once the table cell has bound it.
Ordered == IF "df" \in ns THEN df ELSE <<>>
\* The declared values of the pool that Python's float() accepts.
NumericStrings == {<<"1">>, <<"-", ".", "5">>}
DeclaredNumeric(vals) == \A i \in 1..Len(vals) : vals[i] \in NumericStrings

\* C1: once the table cell has run, the ordered result holds a fetched trial if
\* and only if its objective is valid (reported and not -inf), holds nothing
\* else, and the excluded and the included trials add up to the fetched ones.
Thm_C1 ==
    runs >= 1 =>
        /\ \A r \in Rows(full_df) : (r \in Rows(Ordered)) <=> HasValidObjective(r)
        /\ Rows(Ordered) \subseteq Rows(full_df)
        /\ Cardinality(Rows(Ordered)) = Len(Ordered)
        /\ Cardinality({i \in 1..Len(full_df) : ~HasValidObjective(full_df[i])})
              + Len(Ordered) = Len(full_df)
Wit_C1 ==
    /\ pc = "time"
    /\ Len(full_df) = 3
    /\ Len(df) = 1
    /\ \E i, j \in 1..3 : /\ full_df[i].FinalObjectiveValue = NaN
                          /\ full_df[j].FinalObjectiveValue = NegInf

\* C2: every adjacent pair of the ordered result is in ascending order of the
\* objective when the type the status cell read is Minimize, in descending order
\* when it is Maximize.
Thm_C2 ==
    (runs >= 1 /\ "df" \in ns) =>
        \A i \in 1..(Len(df) - 1) :
            IF tuning_job_result.Type = "Minimize"
            THEN NumLe(df[i].FinalObjectiveValue, df[i + 1].FinalObjectiveValue)
            ELSE NumLe(df[i + 1].FinalObjectiveValue, df[i].FinalObjectiveValue)
Wit_C2 ==
    /\ runs >= 1
    /\ tuning_job_result.Type = "Maximize"
    /\ Len(df) >= 2
    /\ df[1].FinalObjectiveValue = Num(2)
    /\ df[Len(df)].FinalObjectiveValue = Num(1)
    /\ full_df[1].FinalObjectiveValue = Num(1)

\* C3 (as claimed): with an empty listing the table cell leaves an empty ordered
\* sequence, prints a warning and raises no error.
Claim_C3 ==
    (runs >= 1 /\ Len(full_df) = 0) =>
        /\ "df" \in ns
        /\ df = <<>>
        /\ PrintedKind(out.table, "novalid")
        /\ err = "none"

\* C4 (as claimed): with a non-empty listing and no valid objective the result
\* is empty, a count of zero and the no-valid-results message are printed, no
\* error is raised and the charts are produced over the empty result.
ContinuesOverEmpty ==
    /\ "df" \in ns
    /\ df = <<>>
    /\ PrintedKind(out.table, "novalid")
    /\ err = "none"
    /\ pc \in {"time", "hp", "done"}
    /\ pc \in {"hp", "done"} => Len(p) = 1 /\ p[1].points = <<>>
    /\ pc = "done" =>
          /\ Len(figures) = Len(tuning_ranges)
          /\ \A i \in 1..Len(figures) : figures[i].points = <<>>
Claim_C4 ==
    (runs >= 1 /\ Len(full_df) > 0 /\ NoneValid(full_df)) =>
        /\ ContinuesOverEmpty
        /\ Printed(out.table, <<"valid", 0>>)
\* C4 (amended): as claimed, except that no count is printed: the cell prints
\* the no-valid-results message alone.
Thm_C4 ==
    (runs >= 1 /\ Len(full_df) > 0 /\ NoneValid(full_df)) =>
        /\ ContinuesOverEmpty
        /\ out.table = << <<"novalid">> >>
Wit_C4 ==
    /\ pc = "done"
    /\ Len(full_df) = 2
    /\ full_df[1].FinalObjectiveValue = NegInf
    /\ full_df[2].FinalObjectiveValue = NaN
    /\ Len(figures) = 2
    /\ df = <<>>

\* C5: each hyperparameter's chart has a numeric axis and a note when the range
\* is categorical with numeric values only, a discrete axis in the declared
\* order and no note when it is categorical with a value that is no number, and
\* a numeric axis and no note when it is continuous or integer.
Thm_C5 ==
    pc = "done" =>
        /\ Len(figures) = Len(tuning_ranges)
        /\ \A i \in 1..Len(tuning_ranges) :
              LET r == tuning_ranges[i]
                  note == Printed(out.hp, <<"numeric", r.Name>>)
              IN  IF r.Type = "Categorical" /\ DeclaredNumeric(r.Values)
                  THEN figures[i].x_range = <<>> /\ note
                  ELSE IF r.Type = "Categorical"
                  THEN figures[i].x_range = <<r.Values>> /\ ~note
                  ELSE figures[i].x_range = <<>> /\ ~note
Wit_C5 ==
    /\ pc = "done"
    /\ Len(tuning_ranges) = 2
    /\ tuning_ranges[2].Values = << <<"-", ".", "5">>, <<"1">> >>
    /\ figures[2].x_range = <<>>
    /\ out.hp = << <<"numeric", 2>> >>
Wit_C5_discrete ==
    /\ pc = "done"
    /\ Len(tuning_ranges) = 2
    /\ tuning_ranges[2].Values = << <<"a">>, <<"1">> >>
    /\ figures[2].x_range = << << <<"a">>, <<"1">> >> >>
    /\ out.hp = <<>>

\* C6: running the table cell again on the unchanged listing and direction
\* leaves the ordered result as it was, row by row.
Thm_C6 ==
    [][(runs >= 1 /\ runs' = runs + 1) =>
          /\ df' = df
          /\ ("df" \in ns') = ("df" \in ns)
          /\ out'.table = out.table]_vars
Wit_C6 ==
    /\ runs = 2
    /\ Len(df) = 3
    /\ df[1].FinalObjectiveValue = df[2].FinalObjectiveValue
    /\ df[1].TrainingJobName < df[2].TrainingJobName
    /\ ~is_minimize

\* C7: after a successful status query the reminder is printed if and only if
\* the status is not Completed; in every case the completed count is printed,
\* the direction and the metric name are bound, and no error is raised.
Thm_C7 ==
    "tuning_job_result" \in ns =>
        /\ Printed(out.status, <<"reminder">>)
              <=> tuning_job_result.Status \in {"InProgress", "Stopped", "Failed"}
        /\ Printed(out.status, <<"completed", tuning_job_result.Completed>>)
        /\ {"status", "job_count", "is_minimize", "objective_name"} \subseteq ns
        /\ status = tuning_job_result.Status
        /\ is_minimize = (tuning_job_result.Type = "Minimize")
        /\ objective_name = tuning_job_result.MetricName
        /\ err \notin DescribeErrors
        /\ pc # "status"
Wit_C7 ==
    /\ pc = "table"
    /\ status = "Stopped"
    /\ out.status = << <<"reminder">>, <<"completed", 0>> >>
Wit_C7_completed ==
    /\ pc = "table"
    /\ status = "Completed"
    /\ out.status = << <<"completed", MaxTrials>> >>

\* C8: the run shows one chart of the objective against the start time and one
\* chart per declared hyperparameter, each with exactly one point per row of the
\* ordered result, in its order: that row's x value and its objective.
Thm_C8 ==
    /\ pc \in {"hp", "done"} =>
          /\ Len(p) = 1
          /\ Len(p[1].points) = Len(df)
          /\ \A k \in 1..Len(df) :
                p[1].points[k] = <<df[k].TrainingStartTime, df[k].FinalObjectiveValue>>
    /\ pc = "done" =>
          /\ Len(figures) = Len(tuning_ranges)
          /\ Len(p) + Len(figures) = Len(tuning_ranges) + 1
          /\ \A i \in 1..Len(figures) :
                /\ figures[i].title = tuning_ranges[i].Name
                /\ Len(figures[i].points) = Len(df)
                /\ \A k \in 1..Len(df) :
                      figures[i].points[k] = <<df[k].hp[i], df[k].FinalObjectiveValue>>
Wit_C8 ==
    /\ pc = "done"
    /\ Len(figures) = 2
    /\ Len(full_df) = 3
    /\ Len(df) = 2
    /\ Len(figures[2].points) = 2
    /\ Len(p[1].points) = 2

\* C9: the status query is issued at most once in a run, and once it has failed
\* the run has stopped with that error and no result, status, count, direction
\* or metric name is bound.
Thm_C9 ==
    /\ queries <= 1
    /\ err \in DescribeErrors =>
          /\ pc = "error"
          /\ queries = 1
          /\ ns \cap {"tuning_job_result", "status", "job_count", "is_minimize",
                      "objective_name"} = {}
          /\ out.status = <<>>
    /\ pc = "error" /\ queries = 1 /\ "tuning_job_result" \notin ns => err \in DescribeErrors
Wit_C9 == pc = "error" /\ err = "TransientServiceError" /\ queries = 1
Wit_C9_notfound == pc = "error" /\ err = "NotFoundError" /\ queries = 1

\* C10: with a valid trial, the printed count is the length of the ordered
\* result, the printed lowest and highest are the least and the greatest
\* objective in it, its first row has the lowest under Minimize and the highest
\* under Maximize, and a single valid trial gives length 1 and lowest = highest.
Thm_C10 ==
    (runs >= 1 /\ ~NoneValid(full_df)) =>
        \E lo, hi \in {r.FinalObjectiveValue : r \in Rows(df)} :
            /\ \A r \in Rows(df) : NumLe(lo, r.FinalObjectiveValue)
                                   /\ NumLe(r.FinalObjectiveValue, hi)
            /\ out.table = << <<"valid", Len(df)>>, <<"lowhigh", lo, hi>> >>
            /\ Len(df) = Cardinality({r \in Rows(full_df) : HasValidObjective(r)})
            /\ df[1].FinalObjectiveValue
                  = IF tuning_job_result.Type = "Minimize" THEN lo ELSE hi
            /\ Len(df) = 1 => lo = hi /\ lo = df[1].FinalObjectiveValue
Wit_C10 ==
    /\ runs >= 1
    /\ tuning_job_result.Type = "Maximize"
    /\ out.table = << <<"valid", 2>>, <<"lowhigh", Num(1), Num(2)>> >>
    /\ df[1].FinalObjectiveValue = Num(2)
Wit_C10_single ==
    /\ runs >= 1
    /\ Len(full_df) = 3
    /\ out.table = << <<"valid", 1>>, <<"lowhigh", Num(2), Num(2)>> >>

====
